---- MODULE Spec2Model ----
(***************************************************************************)
(* Model of the Virtual TA repository:                                     *)
(*   src/main.py                  the FastAPI service (startup_event,      *)
(*                                query_ta, root)                          *)
(*   src/scripts/process_data.py  the ingestion loader                     *)
(*                                (load_documents_with_metadata), the      *)
(*                                indexer (create_and_persist_index) and   *)
(*                                the ingestion run (__main__)             *)
(*                                                                         *)
(* Python values are tagged records [t, v]: None, str (a sequence of       *)
(* one-character strings), number, list, dict.  A dict is a function from  *)
(* key names to values; a key that is absent is not in its DOMAIN.         *)
(***************************************************************************)
EXTENDS Integers, Sequences, FiniteSets, TLC

VARIABLES
    query_engine,   \* main.py: the global query engine (None until startup succeeds)
    startup,        \* main.py: "pending", "ready" or "failed" (startup_event)
    last,           \* main.py: the request being answered, with its response
    all_documents,  \* process_data.py: the list the loader builds
    pc,             \* process_data.py: position of the loader
    cur,            \* process_data.py: the discussion file handled last and how it ended
    data,           \* record normaliser: the record under construction
    made,           \* record normaliser: what the two Document constructions gave
    requests,       \* main.py: the requests the server has accepted, each with its position
    loop,           \* main.py: the request whose handler holds the event loop, 0 when none
    collection,     \* process_data.py: the Chroma collection under CHROMA_DB_PATH
    ingest          \* process_data.py: the ingestion runs so far and how the last one went

vars == <<query_engine, startup, last, all_documents, pc, cur, data, made,
          requests, loop, collection, ingest>>

----------------------------------------------------------------------------
(* Bounds of the model *)

MaxQuestionLen == 2
MaxNodes == 2
MaxLines == 3
MaxDocs == 2
MaxTags == 2
MaxRequests == 3
MaxRuns == 3
MaxChunks == 2

----------------------------------------------------------------------------
(* Python values *)

None == [t |-> "none", v |-> <<>>]
Absent == [t |-> "absent", v |-> <<>>]
Str(s) == [t |-> "str", v |-> s]
Num(n) == [t |-> "num", v |-> n]
List(xs) == [t |-> "list", v |-> xs]
Dict(f) == [t |-> "dict", v |-> f]

EmptyStr == Str(<<>>)

\* Python truth value of an object (`if x`, `x or y`, `not x`)
Truthy(x) ==
    CASE x.t = "none" -> FALSE
      [] x.t = "str" -> x.v # <<>>
      [] x.t = "num" -> x.v # 0
      [] x.t = "list" -> x.v # <<>>
      [] x.t = "dict" -> DOMAIN x.v # {}
      [] OTHER -> TRUE

\* a or b
PyOr(a, b) == IF Truthy(a) THEN a ELSE b

\* d.get(k, default) on a dict value d
Get(d, k, default) == IF k \in DOMAIN d.v THEN d.v[k] ELSE default

\* the dict holding the fields of `full` that are not Absent
MkDict(full) == Dict([k \in {x \in DOMAIN full : full[x] # Absent} |-> full[k]])

Whitespace == {" "}

\* str.strip() on a sequence of characters
RECURSIVE LStrip(_)
LStrip(s) == IF s # <<>> /\ Head(s) \in Whitespace THEN LStrip(Tail(s)) ELSE s

RECURSIVE RStrip(_)
RStrip(s) ==
    IF s # <<>> /\ s[Len(s)] \in Whitespace THEN RStrip(SubSeq(s, 1, Len(s) - 1)) ELSE s

Strip(s) == RStrip(LStrip(s))

\* all sequences over S of length 0..n
SeqsUpTo(S, n) == UNION {[1..k -> S] : k \in 0..n}

----------------------------------------------------------------------------
(* src/main.py: the service *)

NoEngine == "None"
Engine == "QueryEngine"

Message == "Virtual TA API is running. Go to /docs for API documentation."
NoTitle == Str(<<"N", "o", " ", "T", "i", "t", "l", "e", " ",
                 "A", "v", "a", "i", "l", "a", "b", "l", "e">>)

Idle == [method |-> "none", question |-> <<>>, engine |-> NoEngine, invoked |-> FALSE,
         status |-> 0, answer |-> <<>>, links |-> <<>>, nodes |-> <<>>, body |-> ""]

Questions == SeqsUpTo({" ", "a"}, MaxQuestionLen)

U1 == Str(<<"u", "1">>)
U2 == Str(<<"u", "2">>)

\* metadata of the segments the engine can retrieve
NodeMetadata ==
    {MkDict(f) : f \in [title : {Absent, EmptyStr, Str(<<"T">>)},
                        topic_title : {Absent, Str(<<"P">>)},
                        text : {Absent, Str(<<"X">>)},
                        url : {Absent, EmptyStr, U1, U2}]}

SourceNodes == SeqsUpTo(NodeMetadata, MaxNodes)

AnswerText == <<"a", "n", "s">>

\* a handler that takes the engine check for passed
EngineMissingNever(qe) == FALSE

\* `if not query_engine`
EngineMissing(qe) == qe = NoEngine

\* a handler that forgets to strip the question
StrippedQuestionRaw(request) == request

\* request.question.strip()
StrippedQuestion(request) == Strip(request)

\* a title expression that prefers topic_title to title
LinkTitleTopicFirst(metadata) ==
    LET url == Get(metadata, "url", None)
    IN PyOr(PyOr(PyOr(PyOr(Get(metadata, "topic_title", None),
                           Get(metadata, "title", None)),
                      Get(metadata, "text", None)),
                 url),
            NoTitle)

\* the title expression of the link loop
LinkTitle(metadata) ==
    LET url == Get(metadata, "url", None)
    IN PyOr(PyOr(PyOr(PyOr(Get(metadata, "title", None),
                           Get(metadata, "topic_title", None)),
                      Get(metadata, "text", None)),
                 url),
            NoTitle)

\* the link loop over response.source_nodes
RECURSIVE BuildLinks(_, _)
BuildLinks(source_nodes, links) ==
    IF source_nodes = <<>> THEN links
    ELSE LET metadata == Head(source_nodes)
             url == Get(metadata, "url", None)
             title == LinkTitle(metadata)
         IN BuildLinks(Tail(source_nodes),
                       IF Truthy(url)
                       THEN Append(links, [url |-> url, title |-> title])
                       ELSE links)

\* a startup that is run again after it failed
startup_event_retrying ==
    /\ startup \in {"pending", "failed"}
    /\ \/ /\ query_engine' = Engine
          /\ startup' = "ready"
       \/ /\ query_engine' = query_engine
          /\ startup' = "failed"
    /\ UNCHANGED <<last, all_documents, pc, cur, data, made,
                 requests, loop, collection, ingest>>

\* initialize_query_engine returns an engine, or raises
startup_event ==
    /\ startup = "pending"
    /\ \/ /\ query_engine' = Engine
          /\ startup' = "ready"
       \/ /\ query_engine' = query_engine
          /\ startup' = "failed"
    /\ UNCHANGED <<last, all_documents, pc, cur, data, made,
                 requests, loop, collection, ingest>>

\* POST /.  The handler has no await: it runs from entry to response in one
\* step of the event loop.  It reads the global whatever the state of startup
\* (a server run with its lifespan off never calls startup_event).
query_ta(request) ==
    /\ last = Idle
    /\ LET question == StrippedQuestion(request)
           base == [Idle EXCEPT !.method = "POST", !.question = request,
                                !.engine = query_engine]
       IN IF EngineMissing(query_engine)
          THEN last' = [base EXCEPT !.status = 503]
          ELSE IF question = <<>>
          THEN last' = [base EXCEPT !.status = 400]
          ELSE \/ \* query_engine.query raises
                  last' = [base EXCEPT !.invoked = TRUE, !.status = 500]
               \/ \E source_nodes \in SourceNodes :
                    last' = [base EXCEPT !.invoked = TRUE, !.status = 200,
                                         !.answer = AnswerText,
                                         !.nodes = source_nodes,
                                         !.links = BuildLinks(source_nodes, <<>>)]
    /\ UNCHANGED <<query_engine, startup, all_documents, pc, cur, data, made,
                 requests, loop, collection, ingest>>

\* GET /
root ==
    /\ last = Idle
    /\ last' = [Idle EXCEPT !.method = "GET", !.engine = query_engine,
                            !.status = 200, !.body = Message]
    /\ UNCHANGED <<query_engine, startup, all_documents, pc, cur, data, made,
                 requests, loop, collection, ingest>>

\* the response is sent; the event loop takes the next request
Respond ==
    /\ last # Idle
    /\ last' = Idle
    /\ UNCHANGED <<query_engine, startup, all_documents, pc, cur, data, made,
                 requests, loop, collection, ingest>>

----------------------------------------------------------------------------
(* src/scripts/process_data.py: one discussion record to one Document *)

Comma == <<",", " ">>

IsStr(x) == x.t = "str"

\* sep.join(xs) for a list of str
RECURSIVE Join(_, _)
Join(sep, xs) ==
    IF xs = <<>> THEN <<>>
    ELSE IF Len(xs) = 1 THEN xs[1].v
    ELSE xs[1].v \o sep \o Join(sep, Tail(xs))

NoDoc == [text |-> None, metadata |-> <<>>]

\* no request has been accepted
NotArrived == [method |-> "none", question |-> <<>>, pc |-> "none", status |-> 0]
NoRequests == [r \in 1..MaxRequests |-> NotArrived]

\* CHROMA_DB_PATH does not exist yet, and no ingestion has run
NoCollection == [dir |-> FALSE, exists |-> FALSE, entries |-> {}]
NoIngest == [runs |-> 0, pc |-> "idle", documents |-> <<>>, before |-> NoCollection,
             outcome |-> "none"]

\* no discussion file is open
NoFile == [lines |-> <<>>, before |-> 0, sources |-> <<>>, outcome |-> "none"]

Raised(e) == [exc |-> e, doc |-> NoDoc, keep |-> FALSE]

\* a loader that keeps a Document whatever its text
keep_document_always(doc) == TRUE

\* `if doc.text.strip()`
keep_document(doc) == Strip(doc.text.v) # <<>>

\* Document(text=..., metadata={...}), and whether it is appended
Document(text, metadata) ==
    [exc |-> "none", doc |-> [text |-> text, metadata |-> metadata],
     keep |-> keep_document([text |-> text, metadata |-> metadata])]

\* a text expression that prefers cooked to content
record_text_cooked_first(d) == PyOr(Get(d, "cooked", None), Get(d, "content", EmptyStr))

\* data.get('content') or data.get('cooked', '')
record_text(d) == PyOr(Get(d, "content", None), Get(d, "cooked", EmptyStr))

\* a tags expression that passes a list on unjoined
processed_tags_unjoined(tags_value) ==
    [exc |-> "none", val |-> IF tags_value # None THEN tags_value ELSE EmptyStr]

\* ", ".join(tags_value) if isinstance(tags_value, list)
\*     else (tags_value if tags_value is not None else '')
processed_tags(tags_value) ==
    IF tags_value.t = "list"
    THEN IF \A i \in 1..Len(tags_value.v) : IsStr(tags_value.v[i])
         THEN [exc |-> "none", val |-> Str(Join(Comma, tags_value.v))]
         ELSE [exc |-> "TypeError", val |-> None]
    ELSE [exc |-> "none", val |-> IF tags_value # None THEN tags_value ELSE EmptyStr]

\* the metadata dict of a discussion Document
post_metadata(d, tags) ==
    [url |-> Get(d, "url", EmptyStr),
     topic_title |-> Get(d, "topic_title", EmptyStr),
     post_id |-> Get(d, "post_id", EmptyStr),
     post_number |-> Get(d, "post_number", EmptyStr),
     author |-> Get(d, "author", EmptyStr),
     created_at |-> Get(d, "created_at", EmptyStr),
     source_type |-> "discourse_post",
     tags |-> tags]

\* the body of the line loop after json.loads(line) gave d
jsonl_document(d) ==
    IF d.t # "dict" THEN Raised("AttributeError")
    ELSE LET tags == processed_tags(Get(d, "tags", None))
         IN IF tags.exc # "none" THEN Raised(tags.exc)
            ELSE Document(record_text(d), post_metadata(d, tags.val))

\* the body of the array loop for the item d
array_document(d) ==
    IF d.t # "dict" THEN Raised("AttributeError")
    ELSE LET tags == processed_tags(Get(d, "tags", None))
         IN IF tags.exc # "none" THEN Raised(tags.exc)
            ELSE Document(record_text(d), post_metadata(d, tags.val))

\* the records the normaliser is tried on
TagItems == {Str(<<"p">>), Str(<<"d">>), Num(7)}

TagValues ==
    {Absent, None, EmptyStr, Str(<<"t">>), Num(7), Dict([k \in {"k"} |-> Num(1)])}
        \cup {List(xs) : xs \in SeqsUpTo(TagItems, MaxTags)}

Records ==
    {MkDict(f) : f \in [content : {Absent, None, EmptyStr, Str(<<" ">>), Str(<<"a">>)},
                        cooked : {Absent, EmptyStr, Str(<<"b">>)},
                        url : {Absent, U1},
                        topic_title : {Absent, Str(<<"P">>)},
                        tags : TagValues]}

NotMade == [branch |-> "none", exc |-> "none", doc |-> NoDoc, keep |-> FALSE]

\* one line of a line-delimited file is normalised
NormaliseLine ==
    /\ made = NotMade
    /\ made' = [branch |-> "jsonl"] @@ jsonl_document(data)
    /\ UNCHANGED <<query_engine, startup, last, all_documents, pc, cur, data,
                 requests, loop, collection, ingest>>

\* one item of a JSON array is normalised
NormaliseItem ==
    /\ made = NotMade
    /\ made' = [branch |-> "array"] @@ array_document(data)
    /\ UNCHANGED <<query_engine, startup, last, all_documents, pc, cur, data,
                 requests, loop, collection, ingest>>

InitRecord ==
    /\ query_engine = NoEngine
    /\ startup = "pending"
    /\ last = Idle
    /\ all_documents = <<>>
    /\ pc = "off"
    /\ cur = NoFile
    /\ data \in Records \cup {Num(7), List(<<>>)}
    /\ made = NotMade
    /\ requests = NoRequests
    /\ loop = 0
    /\ collection = NoCollection
    /\ ingest = NoIngest

NextRecord == NormaliseLine \/ NormaliseItem

SpecRecord == InitRecord /\ [][NextRecord]_vars

----------------------------------------------------------------------------
(* src/scripts/process_data.py: load_documents_with_metadata *)

\* the record of the end-to-end scenario
PandasRecord ==
    Dict([content |-> Str(<<"U", "s", "e", " ", "p", "a", "n", "d", "a", "s", " ", "f", "o", "r", " ", "X", ".">>),
          url |-> Str(<<"h", "t", "t", "p", ":", "/", "/", "a">>),
          topic_title |-> Str(<<"P", "a", "n", "d", "a", "s", " ", "B", "a", "s", "i", "c", "s">>),
          tags |-> List(<<Str(<<"p", "y", "t", "h", "o", "n">>), Str(<<"d", "a", "t", "a">>)>>)])

\* a record whose text is blank, one whose tags cannot be joined, a non-object
BlankRecord == Dict([content |-> Str(<<" ">>), cooked |-> Str(<<"b">>), url |-> U2])
BadTagsRecord == Dict([content |-> Str(<<"a">>), url |-> U1, tags |-> List(<<Str(<<"p">>), Num(7)>>)])
Items == {PandasRecord, BlankRecord, BadTagsRecord, Num(7)}

\* The lines of a discussion file.  A line is blank, unparsable ("bad"), a
\* complete JSON value ("val": `v`), or a piece of an array written over
\* several lines: "open" `[`, "head" `[v,`, "last" `v]`, "close" `]`; or one of
\* the two halves of an object written over two lines ("obj_open", "obj_close").
Line(k, v) == [k |-> k, v |-> v]

\* the object whose halves are the lines "obj_open" and "obj_close"
SplitObject == Dict([content |-> Str(<<"a">>), url |-> U1])

Lines ==
    {Line("blank", None), Line("bad", None), Line("open", None), Line("close", None),
     Line("obj_open", None), Line("obj_close", None)}
        \cup {Line("val", v) : v \in Items \cup {List(<<i>>) : i \in Items}}
        \cup {Line(k, v) : k \in {"head", "last"}, v \in Items}

Files == SeqsUpTo(Lines, MaxLines)

\* `if line.strip()`
NonBlank(line) == line.k # "blank"

JSONDecodeError == [ok |-> FALSE, v |-> None]

\* json.loads(line)
json_loads_line(line) ==
    IF line.k = "val" THEN [ok |-> TRUE, v |-> line.v] ELSE JSONDecodeError

Punct(c) == [t |-> "punct", v |-> c]

\* the JSON tokens of a line
Tokens(line) ==
    CASE line.k = "blank" -> <<>>
      [] line.k = "bad" -> <<Punct("?")>>
      [] line.k = "open" -> <<Punct("[")>>
      [] line.k = "close" -> <<Punct("]")>>
      [] line.k = "val" -> <<line.v>>
      [] line.k = "head" -> <<Punct("["), line.v, Punct(",")>>
      [] line.k = "last" -> <<line.v, Punct("]")>>
      [] line.k = "obj_open" -> <<Punct("{")>>
      [] line.k = "obj_close" -> <<Punct("}")>>

RECURSIVE FileTokens(_)
FileTokens(lines) ==
    IF lines = <<>> THEN <<>> ELSE Tokens(Head(lines)) \o FileTokens(Tail(lines))

IsValue(tok) == tok.t # "punct"

\* json.loads(file_content): one value, `[` v , v ... `]`, or the split object
json_loads_file(lines) ==
    LET toks == FileTokens(lines)
        n == Len(toks)
        inner == SubSeq(toks, 2, n - 1)
        m == n - 2
    IN IF n = 1 /\ IsValue(toks[1]) THEN [ok |-> TRUE, v |-> toks[1]]
       ELSE IF toks = <<Punct("{"), Punct("}")>> THEN [ok |-> TRUE, v |-> SplitObject]
       ELSE IF /\ n >= 2
               /\ toks[1] = Punct("[")
               /\ toks[n] = Punct("]")
               /\ (m = 0 \/ m % 2 = 1)
               /\ \A i \in 1..m : IF i % 2 = 1 THEN IsValue(inner[i]) ELSE inner[i] = Punct(",")
       THEN [ok |-> TRUE, v |-> List([i \in 1..((m + 1) \div 2) |-> inner[2 * i - 1]])]
       ELSE JSONDecodeError

\* the loader's locals while it handles one file; sources notes, for each
\* Document appended, the line or array item it came from
Locals(docs) ==
    [lines_processed |-> 0, is_jsonl |-> FALSE, docs |-> docs, sources |-> <<>>,
     exc |-> "none"]

\* `if lines_processed == 0 and line_num == 0`
first_line_failed(lines_processed, line_num) == lines_processed = 0 /\ line_num = 0

\* `for line_num, line in enumerate(file_content.splitlines())`, from line i on
RECURSIVE line_loop(_, _, _)
line_loop(lines, i, st) ==
    IF i > Len(lines) THEN st
    ELSE IF ~NonBlank(lines[i]) THEN line_loop(lines, i + 1, st)
    ELSE LET parsed == json_loads_line(lines[i])
             line_num == i - 1
         IN IF ~parsed.ok
            THEN IF first_line_failed(st.lines_processed, line_num)
                 THEN [st EXCEPT !.is_jsonl = FALSE, !.exc = "break"]
                 ELSE [st EXCEPT !.exc = "JSONDecodeError"]
            ELSE LET r == jsonl_document(parsed.v)
                     st1 == [st EXCEPT !.is_jsonl = TRUE, !.lines_processed = @ + 1]
                 IN IF r.exc = "none" /\ r.keep
                    THEN line_loop(lines, i + 1,
                                   [st1 EXCEPT !.docs = Append(@, r.doc),
                                               !.sources = Append(@, <<"line", line_num>>)])
                    ELSE line_loop(lines, i + 1, st1)

\* `for item_num, data in enumerate(json_array)`, from item j on
RECURSIVE array_loop(_, _, _)
array_loop(json_array, j, st) ==
    IF j > Len(json_array) THEN st
    ELSE LET r == array_document(json_array[j])
             item_num == j - 1
         IN IF r.exc # "none" THEN [st EXCEPT !.exc = r.exc]
            ELSE IF r.keep
            THEN array_loop(json_array, j + 1,
                            [st EXCEPT !.docs = Append(@, r.doc),
                                       !.sources = Append(@, <<"item", item_num>>)])
            ELSE array_loop(json_array, j + 1, st)

Ended(st, outcome) == [docs |-> st.docs, sources |-> st.sources, outcome |-> outcome]

\* the body of the file loop for one file: the line loop, the fallback to a
\* single JSON array, and the two except clauses around both
process_file(lines, docs) ==
    LET a == line_loop(lines, 1, Locals(docs))
    IN IF a.exc = "JSONDecodeError" THEN Ended(a, "json_error")
       ELSE IF a.is_jsonl THEN Ended(a, "jsonl")
       ELSE LET json_array == json_loads_file(lines)
            IN IF ~json_array.ok THEN Ended(a, "json_error")
               ELSE IF json_array.v.t # "list" THEN Ended(a, "not_array")
               ELSE LET b == array_loop(json_array.v.v, 1, [a EXCEPT !.exc = "none"])
                    IN IF b.exc # "none" THEN Ended(b, "error") ELSE Ended(b, "array")

\* what SimpleDirectoryReader hands back for the course content
CourseDoc == [text |-> Str(<<"c">>), metadata |-> [source_type |-> "course_content"]]
CourseDocs == {<<>>, <<CourseDoc>>}


\* step 1: the course content directory is missing, or its Documents are added
LoadCourseContent ==
    /\ pc = "start"
    /\ \/ all_documents' = all_documents
       \/ \E course_docs \in CourseDocs : all_documents' = all_documents \o course_docs
    /\ pc' = "discourse"
    /\ UNCHANGED <<query_engine, startup, last, cur, data, made,
                 requests, loop, collection, ingest>>

\* step 2, one .jsonl or .json file of the discussion directory
ProcessFile ==
    /\ pc = "discourse"
    /\ cur = NoFile
    /\ Len(all_documents) < MaxDocs
    /\ \E lines \in Files :
         LET r == process_file(lines, all_documents)
         IN /\ all_documents' = r.docs
            /\ cur' = [lines |-> lines, before |-> Len(all_documents),
                       sources |-> r.sources, outcome |-> r.outcome]
    /\ UNCHANGED <<query_engine, startup, last, pc, data, made,
                 requests, loop, collection, ingest>>

\* step 2, a file whose name ends neither in .jsonl nor in .json
SkipFile ==
    /\ pc = "discourse"
    /\ cur = NoFile
    /\ cur' = [NoFile EXCEPT !.outcome = "skipped"]
    /\ UNCHANGED <<query_engine, startup, last, all_documents, pc, data, made,
                 requests, loop, collection, ingest>>

\* the file is closed and the loop goes on to the next name
CloseFile ==
    /\ pc = "discourse"
    /\ cur # NoFile
    /\ cur' = NoFile
    /\ UNCHANGED <<query_engine, startup, last, all_documents, pc, data, made,
                 requests, loop, collection, ingest>>

\* the directory is missing or all its names are done: return all_documents
Return ==
    /\ pc = "discourse"
    /\ cur = NoFile
    /\ pc' = "returned"
    /\ UNCHANGED <<query_engine, startup, last, all_documents, cur, data, made,
                 requests, loop, collection, ingest>>

InitLoad ==
    /\ query_engine = NoEngine
    /\ startup = "pending"
    /\ last = Idle
    /\ all_documents = <<>>
    /\ pc = "start"
    /\ cur = NoFile
    /\ data = None
    /\ made = NotMade
    /\ requests = NoRequests
    /\ loop = 0
    /\ collection = NoCollection
    /\ ingest = NoIngest

NextLoad ==
    \/ LoadCourseContent
    \/ ProcessFile
    \/ SkipFile
    \/ CloseFile
    \/ Return

SpecLoad == InitLoad /\ [][NextLoad]_vars

----------------------------------------------------------------------------
(* The service as a state machine *)

InitApi ==
    /\ query_engine = NoEngine
    /\ startup = "pending"
    /\ last = Idle
    /\ all_documents = <<>>
    /\ pc = "off"
    /\ cur = NoFile
    /\ data = None
    /\ made = NotMade
    /\ requests = NoRequests
    /\ loop = 0
    /\ collection = NoCollection
    /\ ingest = NoIngest

NextApi ==
    \/ startup_event
    \/ \E request \in Questions : query_ta(request)
    \/ root
    \/ Respond

Spec == InitApi /\ [][NextApi]_vars

----------------------------------------------------------------------------
(* src/main.py: several requests in flight on the one event loop            *)
(*                                                                          *)
(* query_ta and root are `async def`: the server runs each as a coroutine   *)
(* on its event loop, and a coroutine keeps the loop until it awaits or     *)
(* returns.  query_ta awaits nothing: `query_engine.query(question)` is a   *)
(* plain call, so the handler holds the loop from its entry to its return.  *)
(* The call is split here into its entry and its return, to show the        *)
(* states in which a handler is inside query_engine.query.                  *)

RequestIds == 1..MaxRequests

Waiting(r) == requests[r].pc = "waiting"
Querying(r) == requests[r].pc = "querying"

\* requests are numbered in the order the server accepts them
NextToArrive(r) ==
    /\ requests[r] = NotArrived
    /\ \A q \in 1..(r - 1) : requests[q] # NotArrived

\* the server accepts a POST / and schedules its handler
AcceptPost(r, question) ==
    /\ NextToArrive(r)
    /\ requests' = [requests EXCEPT ![r] = [method |-> "POST", question |-> question,
                                            pc |-> "waiting", status |-> 0]]
    /\ UNCHANGED <<query_engine, startup, last, all_documents, pc, cur, data, made,
                   loop, collection, ingest>>

\* the server accepts a GET / and schedules its handler
AcceptGet(r) ==
    /\ NextToArrive(r)
    /\ requests' = [requests EXCEPT ![r] = [method |-> "GET", question |-> <<>>,
                                            pc |-> "waiting", status |-> 0]]
    /\ UNCHANGED <<query_engine, startup, last, all_documents, pc, cur, data, made,
                   loop, collection, ingest>>

\* the loop runs query_ta for r: it answers 503 or 400 at once, or enters
\* query_engine.query and stays there
query_ta_call(r) ==
    /\ loop = 0
    /\ Waiting(r)
    /\ requests[r].method = "POST"
    /\ IF EngineMissing(query_engine)
       THEN /\ requests' = [requests EXCEPT ![r].pc = "done", ![r].status = 503]
            /\ loop' = 0
       ELSE IF StrippedQuestion(requests[r].question) = <<>>
       THEN /\ requests' = [requests EXCEPT ![r].pc = "done", ![r].status = 400]
            /\ loop' = 0
       ELSE /\ requests' = [requests EXCEPT ![r].pc = "querying"]
            /\ loop' = r
    /\ UNCHANGED <<query_engine, startup, last, all_documents, pc, cur, data, made,
                   collection, ingest>>

\* query_engine.query returns or raises; the handler builds its response
\* (as in query_ta above) and gives the loop back
query_ta_return(r) ==
    /\ loop = r
    /\ Querying(r)
    /\ \E status \in {200, 500} :
         requests' = [requests EXCEPT ![r].pc = "done", ![r].status = status]
    /\ loop' = 0
    /\ UNCHANGED <<query_engine, startup, last, all_documents, pc, cur, data, made,
                   collection, ingest>>

\* the loop runs root for r
root_call(r) ==
    /\ loop = 0
    /\ Waiting(r)
    /\ requests[r].method = "GET"
    /\ requests' = [requests EXCEPT ![r].pc = "done", ![r].status = 200]
    /\ UNCHANGED <<query_engine, startup, last, all_documents, pc, cur, data, made,
                   loop, collection, ingest>>

InitServe == InitApi

NextServe ==
    \/ startup_event
    \/ \E r \in RequestIds, question \in Questions : AcceptPost(r, question)
    \/ \E r \in RequestIds : AcceptGet(r)
    \/ \E r \in RequestIds : query_ta_call(r)
    \/ \E r \in RequestIds : query_ta_return(r)
    \/ \E r \in RequestIds : root_call(r)

SpecServe == InitServe /\ [][NextServe]_vars

----------------------------------------------------------------------------
(* src/scripts/process_data.py: the ingestion run and the collection        *)
(*                                                                          *)
(* The collection outlives the runs: it is what Chroma keeps on disk under  *)
(* CHROMA_DB_PATH.  An entry is named by the run that wrote it and the      *)
(* place of its node in that run; the node ids of a run are fresh.          *)

\* a Document of a discussion file, as the loader builds it
PandasDoc == jsonl_document(PandasRecord).doc

\* what load_documents_with_metadata can return
LoadedDocuments == SeqsUpTo({CourseDoc, PandasDoc}, MaxDocs)

\* how many nodes SentenceSplitter can cut the documents into
NodeCounts(documents) == Len(documents)..(Len(documents) * MaxChunks)

\* os.makedirs(CHROMA_DB_PATH, exist_ok=True)
makedirs(coll) == [coll EXCEPT !.dir = TRUE]

\* a client that drops the collection it finds and creates it anew
get_or_create_collection_anew(coll) == [coll EXCEPT !.dir = TRUE, !.exists = TRUE, !.entries = {}]

\* db.get_or_create_collection(COLLECTION_NAME)
get_or_create_collection(coll) == [coll EXCEPT !.dir = TRUE, !.exists = TRUE]

\* VectorStoreIndex(nodes, ...): the first `added` nodes of run `run` are
\* embedded and added to the collection
add_nodes(coll, run, added) ==
    [coll EXCEPT !.entries = @ \cup {<<run, k>> : k \in 1..added}]

\* create_and_persist_index(documents), for a run that cuts `nodes` nodes and
\* gets `added` of them into the collection; `opened` is FALSE when the
\* embedding model cannot be set up, which is before the database is opened
create_and_persist_index(documents, coll, run, opened, added) ==
    IF documents = <<>> THEN coll
    ELSE IF ~opened THEN coll
    ELSE add_nodes(get_or_create_collection(coll), run, added)

\* __main__ up to `documents = load_documents_with_metadata(DATA_DIR)`
main_load ==
    /\ ingest.pc = "idle"
    /\ ingest.runs < MaxRuns
    /\ collection' = makedirs(collection)
    /\ \E documents \in LoadedDocuments :
         ingest' = [runs |-> ingest.runs, pc |-> "loaded", documents |-> documents,
                    before |-> collection, outcome |-> "none"]
    /\ UNCHANGED <<query_engine, startup, last, all_documents, pc, cur, data, made,
                   requests, loop>>

\* __main__, `if documents:` taken: create_and_persist_index runs to its end,
\* or an exception ends the run part of the way
main_index ==
    /\ ingest.pc = "loaded"
    /\ ingest.documents # <<>>
    /\ \E nodes \in NodeCounts(ingest.documents), opened \in BOOLEAN :
         \E added \in 0..nodes :
           /\ collection' = create_and_persist_index(ingest.documents, collection,
                                                     ingest.runs + 1, opened, added)
           /\ ingest' = [ingest EXCEPT !.runs = @ + 1, !.pc = "idle", !.documents = <<>>,
                                       !.outcome = IF opened /\ added = nodes
                                                   THEN "indexed" ELSE "failed"]
    /\ UNCHANGED <<query_engine, startup, last, all_documents, pc, cur, data, made,
                   requests, loop>>

\* __main__, `if documents:` not taken: the run only prints
main_no_documents ==
    /\ ingest.pc = "loaded"
    /\ ingest.documents = <<>>
    /\ ingest' = [ingest EXCEPT !.runs = @ + 1, !.pc = "idle", !.outcome = "no_documents"]
    /\ UNCHANGED <<query_engine, startup, last, all_documents, pc, cur, data, made,
                   requests, loop, collection>>

InitIngest == InitApi

NextIngest ==
    \/ main_load
    \/ main_index
    \/ main_no_documents

SpecIngest == InitIngest /\ [][NextIngest]_vars

----------------------------------------------------------------------------
(* Claims about the service, checked under Spec *)

IsPost == last.method = "POST"
IsGet == last.method = "GET"
BlankQuestion == Strip(last.question) = <<>>

\* C1: a POST / handled while the global query engine has not been constructed
\* (startup not yet run, or startup failed) is answered with 503; the engine is
\* not invoked and no answer is returned.
C1_EngineNotReady ==
    (IsPost /\ last.engine = NoEngine) =>
        (last.status = 503 /\ ~last.invoked /\ last.answer = <<>> /\ last.links = <<>>)

\* a non-blank question answered after startup failed
C1_Witness ==
    /\ IsPost /\ last.engine = NoEngine /\ startup = "failed"
    /\ ~BlankQuestion /\ last.status = 503

\* the URLs of a list of links, in order
LinkUrls(links) == [i \in 1..Len(links) |-> links[i].url]

\* the distinct non-empty URLs of the nodes, in first-seen order
RECURSIVE FirstSeenUrls(_, _)
FirstSeenUrls(nodes, seen) ==
    IF nodes = <<>> THEN seen
    ELSE LET url == Get(Head(nodes), "url", None)
         IN FirstSeenUrls(Tail(nodes),
                          IF Truthy(url) /\ \A i \in 1..Len(seen) : seen[i] # url
                          THEN Append(seen, url) ELSE seen)

\* C2: the links of a response hold at most one entry per URL: segments
\* sharing a URL give one link, at the place of the first occurrence, and
\* distinct URLs keep their first-seen order.
C2_LinksDedupByUrl ==
    (IsPost /\ last.status = 200) =>
        LinkUrls(last.links) = FirstSeenUrls(last.nodes, <<>>)

\* the candidates for a link title, in priority order
TitleCandidates(metadata) ==
    <<Get(metadata, "title", None), Get(metadata, "topic_title", None),
      Get(metadata, "text", None), Get(metadata, "url", None), NoTitle>>

NonEmptyStr(x) == x.t = "str" /\ Len(x.v) > 0

FirstNonEmpty(c) ==
    c[CHOOSE i \in 1..Len(c) : NonEmptyStr(c[i]) /\ \A j \in 1..(i - 1) : ~NonEmptyStr(c[j])]

HasUrl(metadata) == NonEmptyStr(Get(metadata, "url", None))

\* C3: every retrieved segment that has a URL gives a link whose title is the
\* first non-empty value among title, topic_title, text, the URL and
\* "No Title Available"; a segment whose URL is absent or empty gives no link.
C3_TitlePriority ==
    (IsPost /\ last.status = 200) =>
        LET withUrl == SelectSeq(last.nodes, HasUrl)
        IN last.links = [i \in 1..Len(withUrl) |->
                            [url |-> withUrl[i].v["url"],
                             title |-> FirstNonEmpty(TitleCandidates(withUrl[i]))]]

\* a segment without title but with topic_title and URL, next to one without URL
C3_Witness ==
    /\ IsPost /\ last.status = 200 /\ Len(last.nodes) = 2
    /\ ~HasUrl(last.nodes[1])
    /\ HasUrl(last.nodes[2])
    /\ "title" \notin DOMAIN last.nodes[2].v
    /\ "topic_title" \in DOMAIN last.nodes[2].v
    /\ Len(last.links) = 1
    /\ last.links[1].title = last.nodes[2].v["topic_title"]

\* C4 as stated: a POST / whose question is blank after trimming is answered
\* with 400 and the engine is not invoked for it.
C4_BlankAlways400 ==
    (IsPost /\ BlankQuestion) => (last.status = 400 /\ ~last.invoked)

\* C4 amended: a POST / whose question is blank after trimming never reaches
\* the engine; it is answered with 400 when the engine has been constructed
\* and with 503 (engine not ready) when it has not.
C4_BlankQuestion ==
    (IsPost /\ BlankQuestion) =>
        /\ ~last.invoked
        /\ last.status = (IF last.engine = NoEngine THEN 503 ELSE 400)

\* a whitespace-only question put to a constructed engine
C4_Witness ==
    /\ IsPost /\ last.question = <<" ">> /\ last.engine = Engine
    /\ last.status = 400 /\ ~last.invoked

\* C10: once construction of the engine has failed at startup the engine
\* variable is never assigned: every later POST / is answered with 503, and
\* GET / returns the liveness message in every engine state.
C10_PermanentlyDegraded ==
    /\ [](IsGet => (last.status = 200 /\ last.body = Message))
    /\ []((startup = "failed" /\ last = Idle) => ENABLED root)
    /\ [][startup = "failed" =>
            /\ startup' = "failed"
            /\ query_engine' = NoEngine
            /\ (last'.method = "POST" => last'.status = 503)]_vars

\* the liveness message served after startup failed
C10_Witness ==
    /\ startup = "failed" /\ IsGet /\ last.engine = NoEngine
    /\ last.status = 200 /\ last.body = Message

----------------------------------------------------------------------------
(* Claims about one record, checked under SpecRecord *)

Constructed == made.branch # "none" /\ made.exc = "none"

\* the Document is appended to the list
Produced == Constructed /\ made.keep

\* the list joined from the left: ((x1 + sep + x2) + sep + x3) ...
RECURSIVE JoinedFrom(_, _, _)
JoinedFrom(acc, sep, xs) ==
    IF xs = <<>> THEN acc ELSE JoinedFrom(acc \o sep \o Head(xs).v, sep, Tail(xs))

Joined(xs) == IF xs = <<>> THEN <<>> ELSE JoinedFrom(Head(xs).v, Comma, Tail(xs))

TagsIn == Get(data, "tags", None)
TagsOut == made.doc.metadata.tags

TagsCases ==
    /\ TagsIn.t = "list" => TagsOut = Str(Joined(TagsIn.v))
    /\ TagsIn.t \notin {"list", "none"} => TagsOut = TagsIn
    /\ TagsIn.t = "none" => TagsOut = EmptyStr

\* C5 as stated: for every discussion record, in both encodings, the tags
\* metadata of the Document that enters the list is a single string (a list of
\* strings joined with ", ", a scalar as it is, the empty string when absent or
\* null), never a list.
C5_TagsAlwaysString ==
    Produced => (TagsOut.t = "str" /\ TagsCases)

\* C5 amended: in both encodings the tags metadata is never a list: a list of
\* strings is joined with ", " into one string, absent or null tags become the
\* empty string, and any other value is used as it is, so the metadata is a
\* string whenever the record's tags are a list, a string, absent or null.
C5_TagsNormalised ==
    Constructed =>
        /\ TagsOut.t # "list"
        /\ TagsCases
        /\ TagsIn.t \in {"list", "str", "none"} => TagsOut.t = "str"

\* an array item whose two tags are joined
C5_Witness ==
    /\ Produced /\ made.branch = "array"
    /\ TagsIn = List(<<Str(<<"p">>), Str(<<"d">>)>>)
    /\ TagsOut = Str(<<"p", ",", " ", "d">>)

HasNonEmpty(d, k) == k \in DOMAIN d.v /\ d.v[k].t = "str" /\ Len(d.v[k].v) > 0

\* C6: the text of the Document is the record's content when content is
\* present and non-empty, and its cooked field (the empty string when there is
\* none) when content is absent, null or empty.
C6_ContentPriority ==
    Constructed =>
        made.doc.text = (IF HasNonEmpty(data, "content") THEN data.v["content"]
                         ELSE IF "cooked" \in DOMAIN data.v THEN data.v["cooked"]
                         ELSE EmptyStr)

\* a line whose content is empty and whose cooked field gives the text
C6_Witness ==
    /\ Constructed /\ made.branch = "jsonl"
    /\ "content" \in DOMAIN data.v /\ data.v["content"] = EmptyStr
    /\ HasNonEmpty(data, "cooked")
    /\ made.doc.text = data.v["cooked"] /\ made.keep

----------------------------------------------------------------------------
(* Claims about the loader, checked under SpecLoad *)

Range(f) == {f[i] : i \in DOMAIN f}

Handled == cur.outcome \notin {"none", "skipped"}

\* the Documents the file handled last has added
NewDocs == SubSeq(all_documents, cur.before + 1, Len(all_documents))

HasText(s) == \E i \in 1..Len(s.v) : s.v[i] \notin Whitespace

\* the text a record resolves to
ResolvedText(d) ==
    IF HasNonEmpty(d, "content") THEN d.v["content"]
    ELSE IF "cooked" \in DOMAIN d.v THEN d.v["cooked"] ELSE EmptyStr

\* an object whose tags, when a list, hold strings only
WellFormed(v) ==
    /\ v.t = "dict"
    /\ LET tags == Get(v, "tags", None)
       IN tags.t = "list" => \A i \in 1..Len(tags.v) : tags.v[i].t = "str"

GoodRecord(v) == WellFormed(v) /\ HasText(ResolvedText(v))

\* every non-blank line is a value of its own or unparsable
LineDelimited(lines) == \A i \in 1..Len(lines) : lines[i].k \in {"blank", "val", "bad"}

\* the file is a JSON array written over several lines, its bracket first
SpreadArray(lines) ==
    /\ lines # <<>>
    /\ lines[1].k \in {"open", "head"}
    /\ json_loads_file(lines).ok

CarriesItem(line) == line.k \in {"val", "head", "last"}

\* the items of a spread array, one to a line
SpreadItems(lines) ==
    LET carrying == SelectSeq(lines, CarriesItem)
    IN [j \in 1..Len(carrying) |-> carrying[j].v]

\* the places (0-based) at which the flags hold, tagged with kind
RECURSIVE Places(_, _, _)
Places(kind, flags, i) ==
    IF i > Len(flags) THEN <<>>
    ELSE (IF flags[i] THEN <<(<<kind, i - 1>>)>> ELSE <<>>) \o Places(kind, flags, i + 1)

LineHasText(line) == line.k = "val" /\ HasText(ResolvedText(line.v))
ItemHasText(v) == HasText(ResolvedText(v))

C8_NoRecordLost ==
    Handled =>
        /\ LineDelimited(cur.lines) =>
              \A i \in 1..Len(cur.lines) :
                  (cur.lines[i].k = "val" /\ GoodRecord(cur.lines[i].v)) =>
                      <<"line", i - 1>> \in Range(cur.sources)
        /\ SpreadArray(cur.lines) =>
              \A j \in 1..Len(SpreadItems(cur.lines)) :
                  GoodRecord(SpreadItems(cur.lines)[j]) =>
                      <<"item", j - 1>> \in Range(cur.sources)

\* the Document a well-formed record is to give
ExpectedDoc(v) ==
    [text |-> ResolvedText(v),
     url |-> Get(v, "url", EmptyStr),
     topic_title |-> Get(v, "topic_title", EmptyStr),
     tags |-> LET tags == Get(v, "tags", None)
              IN IF tags.t = "list" THEN Str(Joined(tags.v))
                 ELSE IF tags.t = "none" THEN EmptyStr ELSE tags]

Carried(doc) ==
    [text |-> doc.text, url |-> doc.metadata.url,
     topic_title |-> doc.metadata.topic_title, tags |-> doc.metadata.tags]

\* C9: a file that holds one JSON array (and no blank line), on a single line
\* or spread over several, gives one Document per array record with non-empty
\* text, carrying the record's text, url, topic_title and joined tags.
C9_ArrayFileLoaded ==
    LET parsed == json_loads_file(cur.lines)
        kept == SelectSeq(parsed.v.v, ItemHasText)
    IN (/\ Handled
        /\ \A i \in 1..Len(cur.lines) : cur.lines[i].k # "blank"
        /\ parsed.ok
        /\ parsed.v.t = "list"
        /\ \A j \in 1..Len(parsed.v.v) : WellFormed(parsed.v.v[j]))
          => /\ Len(NewDocs) = Len(kept)
             /\ \A j \in 1..Len(kept) : Carried(NewDocs[j]) = ExpectedDoc(kept[j])

\* the first non-blank line of the file, when there is one, does not parse
FirstNonBlankFails(lines) ==
    \E i \in 1..Len(lines) :
        /\ lines[i].k # "blank"
        /\ \A j \in 1..(i - 1) : lines[j].k = "blank"
        /\ lines[i].k # "val"

\* C11: whenever the first non-empty line of a file fails to parse as JSON,
\* blank lines before it or not, the loader falls back to parsing the whole
\* file as one JSON array and gives that array's Documents.
C11_FallbackToArray ==
    LET parsed == json_loads_file(cur.lines)
        kept == SelectSeq(parsed.v.v, ItemHasText)
    IN (/\ Handled
        /\ FirstNonBlankFails(cur.lines)
        /\ parsed.ok
        /\ parsed.v.t = "list"
        /\ \A j \in 1..Len(parsed.v.v) : WellFormed(parsed.v.v[j]))
          => /\ Len(NewDocs) = Len(kept)
             /\ \A j \in 1..Len(kept) : Carried(NewDocs[j]) = ExpectedDoc(kept[j])

----------------------------------------------------------------------------
(* Claims about requests in flight *)

\* C12: while one handler is inside query_engine.query, some other request
\* that is waiting can make progress: its handler can be run.
C12_OthersProgress ==
    ((\E r \in RequestIds : Querying(r)) /\ (\E q \in RequestIds : Waiting(q)))
        => \E q \in RequestIds :
             /\ Waiting(q)
             /\ ENABLED (query_ta_call(q) \/ root_call(q))

----------------------------------------------------------------------------
(* Claims about the ingestion runs *)

RunsIn(coll) == {e[1] : e \in coll.entries}

SameCollection(a, b) == a.exists = b.exists /\ a.entries = b.entries

\* C13: no step of any sequence of ingestion runs removes an entry from the
\* collection or removes the collection, and a run that loaded zero Documents
\* ends with the collection as it was when the run began.
C13_NeverWiped ==
    /\ [][/\ collection.exists => collection'.exists
          /\ collection.entries \subseteq collection'.entries]_vars
    /\ []((ingest.pc = "idle" /\ ingest.outcome = "no_documents")
             => SameCollection(collection, ingest.before))

\* a third run loaded nothing and the entries of the first two runs are there
C13_Witness ==
    /\ ingest.pc = "idle"
    /\ ingest.runs = 3
    /\ ingest.outcome = "no_documents"
    /\ RunsIn(collection) = {1, 2}

====
